---- MODULE Spec2Model ----
(***************************************************************************)
(* A model of the goolog logging crate.                                    *)
(*                                                                         *)
(* The sources hold two revisions of the crate, which are two builds of    *)
(* the program and are both modelled (variable `build`):                   *)
(*   "fern"  : src/lib.rs + src/macros.rs.  init_logger builds a           *)
(*             fern::Dispatch with a console chain and an optional file    *)
(*             chain, both formatted by generate_log!; fatal! marks its    *)
(*             record with the sentinel "$goolog:fatal=" when the          *)
(*             INTERNAL__LOGGER_ACTIVE latch is set and exits.             *)
(*   "std" / "nostd" : src/logger/mod.rs + src/macros/mod.rs +             *)
(*             src/macros/on_fatal.rs, with and without the `std`          *)
(*             feature.  init_logger stores a Logger in the static LOGGER  *)
(*             under the SETTING_LOGGER spin mutex and registers it with   *)
(*             the log facade; fatal! logs an error and runs ON_FATAL.     *)
(*                                                                         *)
(* Text is modelled as sequences of characters (one-character strings,     *)
(* "ESC" for \x1b and "U+00E9" for a two-byte UTF-8 character), so that    *)
(* truncation, padding, prefix stripping and replacement are computed.     *)
(***************************************************************************)
EXTENDS Integers, Sequences, FiniteSets

VARIABLES
    build,          \* which revision / feature set was compiled
    facade,         \* log crate: who is registered as the global logger
    maxLevel,       \* log crate: MAX_LOG_LEVEL_FILTER
    LOGGER,         \* logger/mod.rs: static mut LOGGER: Option<Logger>
    SETTING_LOGGER, \* logger/mod.rs: holder of the SETTING_LOGGER mutex (0 = free)
    TARGET_LENGTH,  \* logger/mod.rs: static TARGET_LENGTH
    ON_FATAL,       \* macros/on_fatal.rs: static ON_FATAL (callback or "None")
    onFatalLock,    \* holder of the ON_FATAL mutex (0 = free)
    dispatch,       \* lib.rs: the fern::Dispatch handed to the facade by apply()
    latch,          \* lib.rs: INTERNAL__LOGGER_ACTIVE is set
    clock,          \* wall clock (seconds) read by chrono::Local::now()
    sinks,          \* what each sink has received: sink name -> sequence of lines
    exited,         \* std::process::exit(1) was called
    pc,             \* per thread: position inside the operation it is running
    arg,            \* per thread: arguments and locals of the running operation
    res,            \* per thread: outcome of its last finished init_logger call
    hist,           \* history: records handed to the log facade, counters
    pure            \* inputs and result of a pure function (SpecFmt only)

vars == <<build, facade, maxLevel, LOGGER, SETTING_LOGGER, TARGET_LENGTH, ON_FATAL,
          onFatalLock, dispatch, latch, clock, sinks, exited, pc, arg, res, hist, pure>>

(***************************************************************************)
(* Bounds of the model.                                                    *)
(***************************************************************************)
MaxRecords == 1     \* records handed to the log facade in one behaviour
MaxClock == 1       \* ticks of the wall clock in one behaviour
MaxCalls == 2       \* init_logger, set_target_length and set_on_fatal calls
MaxLen == 3         \* longest target drawn for the pure functions
MaxWidth == 4       \* widest target width drawn for the pure functions

Threads == {1, 2}

(***************************************************************************)
(* Text.                                                                   *)
(***************************************************************************)
ESC == "ESC"
EAcute == "U+00E9"

\* str::len(): the length in bytes of the UTF-8 encoding
RECURSIVE ByteLen(_)
ByteLen(s) ==
    IF s = <<>> THEN 0
    ELSE (IF Head(s) = EAcute THEN 2 ELSE 1) + ByteLen(Tail(s))

\* chars().take(n)
Take(s, n) == IF n >= Len(s) THEN s ELSE SubSeq(s, 1, n)

\* n ASCII spaces
Spaces(n) == [i \in 1..n |-> " "]

\* str::starts_with
StartsWith(s, p) == Len(s) >= Len(p) /\ SubSeq(s, 1, Len(p)) = p

\* str::strip_prefix: the rest after the prefix (only used when StartsWith)
StripPrefix(s, p) == SubSeq(s, Len(p) + 1, Len(s))

\* str::replace: every non-overlapping match, left to right
RECURSIVE Replace(_, _, _)
Replace(s, from, to) ==
    IF s = <<>> THEN <<>>
    ELSE IF StartsWith(s, from) THEN to \o Replace(StripPrefix(s, from), from, to)
    ELSE <<Head(s)>> \o Replace(Tail(s), from, to)

\* "{:w.w}" applied to a string: truncate to w characters, pad to w with spaces
PadTrunc(s, w) == IF Len(s) >= w THEN SubSeq(s, 1, w) ELSE s \o Spaces(w - Len(s))

Digit(n) == <<"0", "1", "2", "3", "4", "5", "6", "7", "8", "9">>[n + 1]
TwoDigits(n) == <<Digit((n \div 10) % 10), Digit(n % 10)>>

Sentinel == <<"$", "g", "o", "o", "l", "o", "g", ":", "f", "a", "t", "a", "l", "=">>
Sep == <<" ", "|", " ">>

(***************************************************************************)
(* Levels of the log crate: Level is 1..5, LevelFilter is 0..5 (0 = Off).  *)
(* A smaller number is more severe.                                        *)
(***************************************************************************)
Off == 0
Error == 1
Warn == 2
Info == 3
Debug == 4
Trace == 5
Levels == Error..Trace
LevelFilters == Off..Trace

\* Level::as_str
LevelName(l) ==
    CASE l = Error -> <<"E", "R", "R", "O", "R">>
      [] l = Warn  -> <<"W", "A", "R", "N">>
      [] l = Info  -> <<"I", "N", "F", "O">>
      [] l = Debug -> <<"D", "E", "B", "U", "G">>
      [] l = Trace -> <<"T", "R", "A", "C", "E">>

FatalName == <<"F", "A", "T", "A", "L">>

\* the ANSI foreground code of the colour lib.rs gives each level
ColorCode(l) ==
    CASE l = Error -> <<"3", "1">>
      [] l = Warn  -> <<"3", "3">>
      [] l = Info  -> <<"3", "2">>
      [] l = Debug -> <<"3", "4">>
      [] l = Trace -> <<"3", "7">>

AnsiReset == <<ESC, "[", "0", "m">>
AnsiDimBold == <<ESC, "[", "2", "m", ESC, "[", "1", "m">>

\* ColoredLevelConfig::color(level).to_string()
Colored(l) == <<ESC, "[">> \o ColorCode(l) \o <<"m">> \o LevelName(l) \o AnsiReset

\* chrono format "\x1b[2m\x1b[1m%d.%m.%Y\x1b[0m | \x1b[2m\x1b[1m%H:%M:%S\x1b[0m"
\* of the instant `now` seconds after 02.01.2024 03:04:05
DateText == <<"0", "2", ".", "0", "1", ".", "2", "0", "2", "4">>
TimeText(now) ==
    LET s == 3 * 3600 + 4 * 60 + 5 + now
    IN  TwoDigits(s \div 3600) \o <<":">> \o TwoDigits((s \div 60) % 60)
          \o <<":">> \o TwoDigits(s % 60)
TimeStamp(now) ==
    AnsiDimBold \o DateText \o AnsiReset \o Sep \o AnsiDimBold \o TimeText(now) \o AnsiReset

(***************************************************************************)
(* lib.rs: to_fixed_size, the target renderer of the fern revision.        *)
(***************************************************************************)
\* to_fixed_size counting the name in bytes (str::len) instead of characters
to_fixed_size_bytes(max_name_length, name) ==
    IF max_name_length = 0 THEN name
    ELSE IF ByteLen(name) >= max_name_length THEN Take(name, max_name_length)
    ELSE name \o Spaces(max_name_length - ByteLen(name))

to_fixed_size(max_name_length, name) ==
    IF max_name_length = 0 THEN name
    ELSE [i \in 1..max_name_length |-> IF i <= Len(name) THEN name[i] ELSE " "]

(***************************************************************************)
(* lib.rs: generate_log! (feature "timestamp", not "std_fatal").  The      *)
(* result is the four "{}" arguments of its format!; FormatLine joins      *)
(* them as the format string does.  `now` is chrono::Local::now().         *)
(***************************************************************************)
\* generate_log with the sentinel recognised at every level, not only Error
generate_log_any_level(max_name_length, record, now) ==
    LET fatal == StartsWith(record.msg, Sentinel)
        message == IF fatal THEN StripPrefix(record.msg, Sentinel) ELSE record.msg
        log_level == IF fatal
                     THEN Replace(Colored(record.level), LevelName(Error), FatalName)
                     ELSE Colored(record.level)
    IN  [ts     |-> TimeStamp(now),
         target |-> to_fixed_size(max_name_length, record.target),
         level  |-> PadTrunc(log_level, 14),
         msg    |-> message]

\* generate_log with the level rewritten but `message = val.into()` left out
generate_log_keeps_message(max_name_length, record, now) ==
    LET fatal == record.level = Error /\ StartsWith(record.msg, Sentinel)
        log_level == IF fatal
                     THEN Replace(Colored(record.level), LevelName(Error), FatalName)
                     ELSE Colored(record.level)
    IN  [ts     |-> TimeStamp(now),
         target |-> to_fixed_size(max_name_length, record.target),
         level  |-> PadTrunc(log_level, 14),
         msg    |-> record.msg]

generate_log(max_name_length, record, now) ==
    LET fatal == record.level = Error /\ StartsWith(record.msg, Sentinel)
        message == IF fatal THEN StripPrefix(record.msg, Sentinel) ELSE record.msg
        log_level == IF fatal
                     THEN Replace(Colored(record.level), LevelName(Error), FatalName)
                     ELSE Colored(record.level)
    IN  [ts     |-> TimeStamp(now),
         target |-> to_fixed_size(max_name_length, record.target),
         level  |-> PadTrunc(log_level, 14),
         msg    |-> message]

FormatLine(f) ==
    (IF f.ts = <<>> THEN <<>> ELSE f.ts \o Sep) \o f.target \o Sep \o f.level \o Sep \o f.msg

(***************************************************************************)
(* logger/mod.rs: Logger::enabled and the line Logger::log prints.         *)
(***************************************************************************)
enabled(logger, level) == level <= logger.log_level

\* the target rendered by Logger::log under TARGET_LENGTH = max_name_length
render_target(max_name_length, name) ==
    IF max_name_length = 0 THEN name
    ELSE IF ByteLen(name) >= max_name_length THEN Take(name, max_name_length)
    ELSE name \o Spaces(max_name_length - ByteLen(name))

logger_line(max_name_length, record, now, std) ==
    [ts     |-> IF std THEN TimeStamp(now) ELSE <<>>,
     target |-> render_target(max_name_length, record.target),
     level  |-> PadTrunc(LevelName(record.level), 14),
     msg    |-> record.msg]

(***************************************************************************)
(* Reading a line back.                                                    *)
(***************************************************************************)
HasAnsi(s) == \E i \in 1..Len(s) : s[i] = ESC

\* s without its ANSI escape sequences (ESC [ ... m)
RECURSIVE StripAnsi(_, _)
StripAnsi(s, inEsc) ==
    IF s = <<>> THEN <<>>
    ELSE IF inEsc THEN StripAnsi(Tail(s), Head(s) # "m")
    ELSE IF Head(s) = ESC THEN StripAnsi(Tail(s), TRUE)
    ELSE <<Head(s)>> \o StripAnsi(Tail(s), FALSE)

RECURSIVE TrimEnd(_)
TrimEnd(s) ==
    IF s = <<>> THEN <<>>
    ELSE IF s[Len(s)] = " " THEN TrimEnd(SubSeq(s, 1, Len(s) - 1))
    ELSE s

\* the level word a reader sees in a line's level field
LevelWord(field) == TrimEnd(StripAnsi(field, FALSE))

(***************************************************************************)
(* Inputs of the operations.                                               *)
(***************************************************************************)
NoneOpt == 0 - 1                 \* Option::None of a numeric argument
Main == <<"M", "a", "i", "n">>
GOOLOG_CALLER == <<"L", "o", "g", "g", "e", "r">>
Targets == {Main}
LogMsgs == {Sentinel \o <<"x">>}                \* messages of info!, error!, ...
FatalMsgs == {<<"x">>}                          \* messages of fatal!
RecordLevels == {Error, Info, Debug}
FilterArgs == {NoneOpt, Error, Trace}           \* Option<LevelFilter> (lib.rs)
LevelArgs == {NoneOpt, Error}                   \* Option<Level> (logger/mod.rs)
WidthArgs == {NoneOpt, 3}                       \* Option<u32> / Option<u8>
Printlns == {"cbA", "cbB"}                      \* println callbacks (no `std` feature)
PrintlnOf(t) == IF t = 1 THEN "cbA" ELSE "cbB"  \* each thread passes its own
Callbacks == {"None", "exit", "user"}           \* Option<OnFatal>
SetWidths == {0}                                \* arguments of set_target_length
WriteOutcomes == {"ok", "fail"}                 \* the sink takes the line or not
IoOutcomes == {"ok", "mkdir", "open"}           \* create_dir_all / fern::log_file
Builds == {"fern", "std", "nostd"}
SinkNames == {"stdout", "file"} \cup Printlns

DefaultWidth == 16
DefaultLevel == Info

\* messages of the fatal! calls inside lib.rs init_logger
MsgMkdir == <<"m", "k", "d", "i", "r">>
MsgOpen == <<"o", "p", "e", "n">>
MsgApply == <<"a", "p", "p", "l", "y">>
MsgLatch == <<"l", "a", "t", "c", "h">>

NoRecord == [level |-> Error, target |-> <<>>, msg |-> <<>>]
NoArg == [log_level |-> NoneOpt, width |-> NoneOpt, println |-> "stdout",
          log_file |-> FALSE,
          rec |-> NoRecord, call |-> 0, fid |-> 0]

NoLine == [ts |-> <<>>, target |-> <<>>, level |-> <<>>, msg |-> <<>>]

\* Option<Logger>::None
LoggerNone == [set |-> FALSE, log_level |-> Info, println |-> "stdout"]

Init ==
    /\ build \in Builds
    /\ facade = "none"
    /\ maxLevel = Off
    /\ LOGGER = LoggerNone
    /\ SETTING_LOGGER = 0
    /\ TARGET_LENGTH = DefaultWidth
    /\ ON_FATAL = IF build = "std" THEN "exit" ELSE "None"
    /\ onFatalLock = 0
    /\ dispatch = [log_level |-> Off, max_name_length |-> 0, log_file |-> FALSE]
    /\ latch = FALSE
    /\ clock = 0
    /\ sinks = [s \in SinkNames |-> <<>>]
    /\ exited = FALSE
    /\ pc = [t \in Threads |-> "idle"]
    /\ arg = [t \in Threads |-> NoArg]
    /\ res = [t \in Threads |-> [r |-> "none", late |-> FALSE, overlap |-> FALSE]]
    /\ hist = [records |-> <<>>, calls |-> 0, ok |-> 0, err |-> 0,
               slotWrites |-> 0, registrations |-> 0, first |-> "none",
               fatals |-> 0, failed |-> {}]
    /\ pure = [op |-> "none", done |-> FALSE, w |-> 0, t |-> <<>>, rec |-> NoRecord,
               now |-> 0, out |-> <<>>, line |-> NoLine]

Running == ~exited

\* An init_logger call of lib.rs may end in a fatal!, which hands a record to the
\* facade: a call keeps one record of the budget until it is past that point.
Reserved == Cardinality({t \in Threads : pc[t] \in {"fern_apply", "fern_latch"}})
RecordBudget == Len(hist.records) + Reserved < MaxRecords
Cap(n) == IF n >= 3 THEN 3 ELSE n + 1      \* history counters saturate

(***************************************************************************)
(* The environment: the wall clock (each chain of the dispatch reads it on *)
(* its own, so a tick may fall between the two), and another crate's       *)
(* logger taking the log facade first (what makes set_logger_racy / apply  *)
(* fail).                                                                  *)
(***************************************************************************)
Tick ==
    /\ Running
    \* the time that passes between the two chains' reads of the clock
    /\ \E t \in Threads : pc[t] = "log_file"
    /\ clock < MaxClock
    /\ clock' = clock + 1
    /\ UNCHANGED <<build, facade, maxLevel, LOGGER, SETTING_LOGGER, TARGET_LENGTH,
                   ON_FATAL, onFatalLock, dispatch, latch, sinks, exited, pc, arg,
                   res, hist, pure>>

ForeignSetLogger ==
    /\ Running
    /\ facade = "none"
    /\ facade' = "foreign"
    /\ UNCHANGED <<build, maxLevel, LOGGER, SETTING_LOGGER, TARGET_LENGTH, ON_FATAL,
                   onFatalLock, dispatch, latch, clock, sinks, exited, pc, arg, res,
                   hist, pure>>

(***************************************************************************)
(* logger/mod.rs: init_logger, one action per step of the function.        *)
(***************************************************************************)
InitCall(t) ==
    /\ Running /\ build \in {"std", "nostd"}
    /\ pc[t] = "idle"
    /\ hist.calls < MaxCalls
    /\ \E lv \in LevelArgs, w \in WidthArgs,
          pr \in (IF build = "std" THEN {"stdout"} ELSE {PrintlnOf(t)}) :
          arg' = [arg EXCEPT ![t] =
                    [NoArg EXCEPT !.log_level = lv, !.width = w, !.println = pr]]
    /\ pc' = [pc EXCEPT ![t] = "init_lock"]
    /\ res' = [res EXCEPT ![t] = [r |-> "running", late |-> hist.ok >= 1,
                                  overlap |-> SETTING_LOGGER # 0]]
    /\ hist' = [hist EXCEPT !.calls = hist.calls + 1]
    /\ UNCHANGED <<build, facade, maxLevel, LOGGER, SETTING_LOGGER, TARGET_LENGTH,
                   ON_FATAL, onFatalLock, dispatch, latch, clock, sinks, exited, pure>>

\* InitLock without the mutex: the call goes on whoever holds it
InitLock_no_mutex(t) ==
    /\ Running
    /\ pc[t] = "init_lock"
    /\ pc' = [pc EXCEPT ![t] = "init_check"]
    /\ UNCHANGED <<build, facade, maxLevel, LOGGER, SETTING_LOGGER, TARGET_LENGTH,
                   ON_FATAL, onFatalLock, dispatch, latch, clock, sinks, exited, arg,
                   res, hist, pure>>

\* let _setting_logger = SETTING_LOGGER.lock();
InitLock(t) ==
    /\ Running
    /\ pc[t] = "init_lock"
    /\ SETTING_LOGGER = 0
    /\ SETTING_LOGGER' = t
    /\ pc' = [pc EXCEPT ![t] = "init_check"]
    /\ UNCHANGED <<build, facade, maxLevel, LOGGER, TARGET_LENGTH, ON_FATAL,
                   onFatalLock, dispatch, latch, clock, sinks, exited, arg, res,
                   hist, pure>>

\* the guard of ON_FATAL is dropped at the end of fatal!'s if let
Release(t) == IF onFatalLock = t THEN 0 ELSE onFatalLock

\* the guard is dropped when init_logger returns
Unlock(t) == IF SETTING_LOGGER = t THEN 0 ELSE SETTING_LOGGER

\* InitCheck with the target length stored before the check instead of at the end
InitCheck_width_first(t) ==
    /\ Running
    /\ pc[t] = "init_check"
    /\ TARGET_LENGTH' = (IF arg[t].width = NoneOpt THEN TARGET_LENGTH ELSE arg[t].width)
    /\ IF LOGGER.set
       THEN /\ pc' = [pc EXCEPT ![t] = "idle"]
            /\ arg' = [arg EXCEPT ![t] = NoArg]
            /\ res' = [res EXCEPT ![t].r = "AlreadySet"]
            /\ hist' = [hist EXCEPT !.err = Cap(hist.err)]
            /\ SETTING_LOGGER' = Unlock(t)
       ELSE /\ pc' = [pc EXCEPT ![t] = "init_store"]
            /\ UNCHANGED <<arg, res, hist, SETTING_LOGGER>>
    /\ UNCHANGED <<build, facade, maxLevel, LOGGER, ON_FATAL,
                   onFatalLock, dispatch, latch, clock, sinks, exited, pure>>

\* if LOGGER.is_some() { return Err(LoggerAlreadySet); }
InitCheck(t) ==
    /\ Running
    /\ pc[t] = "init_check"
    /\ IF LOGGER.set
       THEN /\ pc' = [pc EXCEPT ![t] = "idle"]
            /\ arg' = [arg EXCEPT ![t] = NoArg]
            /\ res' = [res EXCEPT ![t].r = "AlreadySet"]
            /\ hist' = [hist EXCEPT !.err = Cap(hist.err)]
            /\ SETTING_LOGGER' = Unlock(t)
       ELSE /\ pc' = [pc EXCEPT ![t] = "init_store"]
            /\ UNCHANGED <<arg, res, hist, SETTING_LOGGER>>
    /\ UNCHANGED <<build, facade, maxLevel, LOGGER, TARGET_LENGTH, ON_FATAL,
                   onFatalLock, dispatch, latch, clock, sinks, exited, pure>>

\* LOGGER = logger.into();
InitStore(t) ==
    /\ Running
    /\ pc[t] = "init_store"
    /\ LOGGER' = [set |-> TRUE,
                  log_level |-> IF arg[t].log_level = NoneOpt THEN DefaultLevel
                                ELSE arg[t].log_level,
                  println |-> arg[t].println]
    /\ hist' = [hist EXCEPT !.slotWrites = Cap(hist.slotWrites)]
    /\ pc' = [pc EXCEPT ![t] = "init_register"]
    /\ arg' = [arg EXCEPT ![t].println = NoArg.println]     \* moved into LOGGER
    /\ UNCHANGED <<build, facade, maxLevel, SETTING_LOGGER, TARGET_LENGTH, ON_FATAL,
                   onFatalLock, dispatch, latch, clock, sinks, exited, res, pure>>

\* if set_logger_racy(..).is_err() { LOGGER = None; return Err(LoggerAlreadySet); }
InitRegister(t) ==
    /\ Running
    /\ pc[t] = "init_register"
    /\ IF facade = "none"
       THEN /\ facade' = "goolog"
            /\ hist' = [hist EXCEPT !.registrations = Cap(hist.registrations),
                                    !.first = LOGGER.println]
            /\ pc' = [pc EXCEPT ![t] = "init_level"]
            /\ UNCHANGED <<LOGGER, arg, res, SETTING_LOGGER>>
       ELSE /\ LOGGER' = LoggerNone
            /\ pc' = [pc EXCEPT ![t] = "idle"]
            /\ arg' = [arg EXCEPT ![t] = NoArg]
            /\ res' = [res EXCEPT ![t].r = "AlreadySet"]
            /\ hist' = [hist EXCEPT !.err = Cap(hist.err)]
            /\ SETTING_LOGGER' = Unlock(t)
            /\ UNCHANGED facade
    /\ UNCHANGED <<build, maxLevel, TARGET_LENGTH, ON_FATAL, onFatalLock, dispatch,
                   latch, clock, sinks, exited, pure>>

\* set_max_level_racy(log_level.to_level_filter())
InitLevel(t) ==
    /\ Running
    /\ pc[t] = "init_level"
    /\ maxLevel' = (IF arg[t].log_level = NoneOpt THEN DefaultLevel ELSE arg[t].log_level)
    /\ pc' = [pc EXCEPT ![t] = "init_width"]
    /\ arg' = [arg EXCEPT ![t].log_level = NoArg.log_level]  \* not read again
    /\ UNCHANGED <<build, facade, LOGGER, SETTING_LOGGER, TARGET_LENGTH, ON_FATAL,
                   onFatalLock, dispatch, latch, clock, sinks, exited, res,
                   hist, pure>>

\* if let Some(target_length) = target_length { set_target_length(..) }  Ok(())
InitFinish(t) ==
    /\ Running
    /\ pc[t] = "init_width"
    /\ TARGET_LENGTH' = (IF arg[t].width = NoneOpt THEN TARGET_LENGTH ELSE arg[t].width)
    /\ SETTING_LOGGER' = Unlock(t)
    /\ pc' = [pc EXCEPT ![t] = "idle"]
    /\ arg' = [arg EXCEPT ![t] = NoArg]
    /\ res' = [res EXCEPT ![t].r = "Ok"]
    /\ hist' = [hist EXCEPT !.ok = Cap(hist.ok)]
    /\ UNCHANGED <<build, facade, maxLevel, LOGGER, ON_FATAL, onFatalLock, dispatch,
                   latch, clock, sinks, exited, pure>>

\* pub fn set_target_length
SetTargetLength(t) ==
    /\ Running /\ build \in {"std", "nostd"}
    /\ pc[t] = "idle"
    /\ hist.calls < MaxCalls
    /\ \E n \in SetWidths : TARGET_LENGTH' = n
    /\ hist' = [hist EXCEPT !.calls = hist.calls + 1]
    /\ UNCHANGED <<build, facade, maxLevel, LOGGER, SETTING_LOGGER, ON_FATAL,
                   onFatalLock, dispatch, latch, clock, sinks, exited, pc, arg, res,
                   pure>>

(***************************************************************************)
(* Handing a record to the log facade (log::info!, log::error!, ...).      *)
(* hist.records keeps every record handed over, with the fatal call that   *)
(* made it (fid, 0 for none), the latch at that call, the message the      *)
(* caller formatted, and whether an init_logger call had succeeded         *)
(* (installed) and how many had failed (errs) by then.                     *)
(***************************************************************************)
Handed(t, rec, fid, latched, fmt) ==
    Append(hist.records,
           [level |-> rec.level, target |-> rec.target, msg |-> rec.msg,
            fid |-> fid, latched |-> latched, fmt |-> fmt,
            installed |-> hist.ok >= 1, errs |-> hist.err])

\* log's macros: lvl <= max_level() and a logger is registered
FacadePasses(level) == facade = "goolog" /\ level <= maxLevel

Entry(call, line) ==
    [call |-> call, ts |-> line.ts, target |-> line.target, level |-> line.level,
     msg |-> line.msg]

(***************************************************************************)
(* logger/mod.rs: Logger::log, reached through the facade.                 *)
(***************************************************************************)
\* if self.enabled(record.metadata())
Accepted(rec) == FacadePasses(rec.level) /\ LOGGER.set /\ enabled(LOGGER, rec.level)

\* (self.println)(format_args!(..)): with `std` the crate writes itself, with
\* println!, which panics when the write to stdout fails; without `std` the
\* write is the caller's callback, which returns nothing to Logger::log
MayFail(rec, wr) == wr = "fail" => (Accepted(rec) /\ build = "std")
Panics(rec, wr) == Accepted(rec) /\ wr = "fail" /\ build = "std"

LoggerLog(rec, call, wr) ==
    IF Accepted(rec) /\ wr = "ok"
    THEN sinks' = [sinks EXCEPT ![LOGGER.println] =
                     Append(@, Entry(call, logger_line(TARGET_LENGTH, rec, clock,
                                                       build = "std")))]
    ELSE UNCHANGED sinks

\* macros/mod.rs: info!, warn!, error!, trace!, debug!
LogCall(t) ==
    /\ Running /\ build \in {"std", "nostd"}
    /\ pc[t] = "idle"
    /\ RecordBudget
    /\ \E lv \in RecordLevels, tg \in Targets, m \in LogMsgs, wr \in WriteOutcomes :
          LET rec == [level |-> lv, target |-> tg, msg |-> m]
              call == Len(hist.records) + 1
          IN  /\ MayFail(rec, wr)
              /\ hist' = [hist EXCEPT
                            !.records = Handed(t, rec, 0, latch, m),
                            !.failed = IF wr = "fail" THEN @ \cup {call} ELSE @]
              /\ LoggerLog(rec, call, wr)
              /\ pc' = [pc EXCEPT ![t] = IF Panics(rec, wr) THEN "panicked" ELSE "idle"]
    /\ UNCHANGED <<build, facade, maxLevel, LOGGER, SETTING_LOGGER, TARGET_LENGTH,
                   ON_FATAL, onFatalLock, dispatch, latch, clock, exited, arg,
                   res, pure>>

(***************************************************************************)
(* macros/mod.rs: fatal!, and macros/on_fatal.rs: set_on_fatal.            *)
(***************************************************************************)
\* $crate::log::error!(target: &$target, $( $argument ) *);
FatalCall(t) ==
    /\ Running /\ build \in {"std", "nostd"}
    /\ pc[t] = "idle"
    /\ RecordBudget
    /\ \E tg \in Targets, m \in FatalMsgs, wr \in WriteOutcomes :
          LET rec == [level |-> Error, target |-> tg, msg |-> m]
              call == Len(hist.records) + 1
          IN  /\ MayFail(rec, wr)
              /\ hist' = [hist EXCEPT
                            !.records = Handed(t, rec, hist.fatals + 1, latch, m),
                            !.fatals = hist.fatals + 1,
                            !.failed = IF wr = "fail" THEN @ \cup {call} ELSE @]
              /\ arg' = [arg EXCEPT ![t] =
                           IF Panics(rec, wr) THEN NoArg
                           ELSE [NoArg EXCEPT !.rec = rec, !.call = call,
                                              !.fid = hist.fatals + 1]]
              /\ LoggerLog(rec, call, wr)
              /\ pc' = [pc EXCEPT ![t] =
                          IF Panics(rec, wr) THEN "panicked" ELSE "fatal_lock"]
    /\ UNCHANGED <<build, facade, maxLevel, LOGGER, SETTING_LOGGER, TARGET_LENGTH,
                   ON_FATAL, onFatalLock, dispatch, latch, clock, exited, res, pure>>

\* `if let Some(on_fatal) = *ON_FATAL.lock()`: the guard is a temporary of the
\* scrutinee and lives to the end of the if let, the call of on_fatal included
FatalLock(t) ==
    /\ Running
    /\ pc[t] = "fatal_lock"
    /\ onFatalLock = 0
    /\ IF ON_FATAL = "None"
       THEN /\ pc' = [pc EXCEPT ![t] = "idle"]          \* no callback: guard dropped
            /\ arg' = [arg EXCEPT ![t] = NoArg]
            /\ UNCHANGED onFatalLock
       ELSE /\ onFatalLock' = t
            /\ pc' = [pc EXCEPT ![t] = "fatal_run"]      \* inside on_fatal()
            /\ UNCHANGED arg
    /\ UNCHANGED <<build, facade, maxLevel, LOGGER, SETTING_LOGGER, TARGET_LENGTH,
                   ON_FATAL, dispatch, latch, clock, sinks, exited, res, hist,
                   pure>>

\* on_fatal() runs to its end (the callback of `std` is process::exit(1)), then
\* the guard is dropped
FatalRun(t) ==
    /\ Running
    /\ pc[t] = "fatal_run"
    /\ exited' = (ON_FATAL = "exit")
    /\ onFatalLock' = Release(t)
    /\ pc' = [pc EXCEPT ![t] = "idle"]
    /\ arg' = [arg EXCEPT ![t] = NoArg]
    /\ UNCHANGED <<build, facade, maxLevel, LOGGER, SETTING_LOGGER, TARGET_LENGTH,
                   ON_FATAL, dispatch, latch, clock, sinks, res, hist, pure>>

\* a callback of the caller that itself calls set_on_fatal: it reaches the
\* ON_FATAL.lock() of set_on_fatal while fatal! is still inside on_fatal()
FatalReenter(t) ==
    /\ Running
    /\ pc[t] = "fatal_run"
    /\ ON_FATAL = "user"
    /\ pc' = [pc EXCEPT ![t] = "cb_set_on_fatal"]
    /\ UNCHANGED <<build, facade, maxLevel, LOGGER, SETTING_LOGGER, TARGET_LENGTH,
                   ON_FATAL, onFatalLock, dispatch, latch, clock, sinks, exited, arg,
                   res, hist, pure>>

\* *ON_FATAL.lock() = on_fatal.into(), called by the program or from inside a
\* callback; spin::Mutex is not reentrant
SetOnFatal(t) ==
    /\ Running /\ build \in {"std", "nostd"}
    /\ pc[t] \in {"idle", "cb_set_on_fatal"}
    /\ onFatalLock = 0
    /\ pc[t] = "idle" => hist.calls < MaxCalls
    /\ \E cb \in Callbacks \ {"None", ON_FATAL} : ON_FATAL' = cb
    /\ hist' = [hist EXCEPT !.calls = IF pc[t] = "idle" THEN hist.calls + 1 ELSE @]
    /\ pc' = [pc EXCEPT ![t] = IF pc[t] = "idle" THEN "idle" ELSE "fatal_run"]
    /\ UNCHANGED <<build, facade, maxLevel, LOGGER, SETTING_LOGGER, TARGET_LENGTH,
                   onFatalLock, dispatch, latch, clock, sinks, exited, arg, res,
                   pure>>

(***************************************************************************)
(* macros.rs: fatal! of the fern revision.                                 *)
(***************************************************************************)
\* fatal_message with the latch not consulted: the sentinel is always prepended
fatal_message_always_marked(active, fmt) == Sentinel \o fmt

\* the message of the error record fatal! hands to the facade
fatal_message(active, fmt) == IF active THEN Sentinel \o fmt ELSE fmt

\* fatal!(target, fmt) by thread t: the record is handed to the facade; the
\* dispatch's chains and exit(1) follow as further steps (fatal! never returns,
\* so the caller's locals are dead from here on)
FernFatalStart(t, target, fmt) ==
    LET rec == [level |-> Error, target |-> target, msg |-> fatal_message(latch, fmt)]
    IN  /\ hist' = [hist EXCEPT
                      !.records = Handed(t, rec, hist.fatals + 1, latch, fmt),
                      !.fatals = hist.fatals + 1,
                      !.calls = IF pc[t] = "idle" THEN Cap(hist.calls) ELSE hist.calls]
        /\ arg' = [arg EXCEPT ![t] =
                     [NoArg EXCEPT !.rec = rec, !.call = Len(hist.records) + 1,
                                  !.fid = hist.fatals + 1]]
        /\ pc' = [pc EXCEPT ![t] =
                    IF FacadePasses(Error) THEN "log_console" ELSE "fatal_exit"]

FernFatalCall(t) ==
    /\ Running /\ build = "fern"
    /\ pc[t] = "idle"
    /\ RecordBudget
    /\ \E tg \in Targets, m \in FatalMsgs : FernFatalStart(t, tg, m)
    /\ UNCHANGED <<build, facade, maxLevel, LOGGER, SETTING_LOGGER, TARGET_LENGTH,
                   ON_FATAL, onFatalLock, dispatch, latch, clock, sinks, exited, res,
                   pure>>

\* std::process::exit(1)
FernFatalExit(t) ==
    /\ Running
    /\ pc[t] = "fatal_exit"
    /\ exited' = TRUE
    /\ UNCHANGED <<build, facade, maxLevel, LOGGER, SETTING_LOGGER, TARGET_LENGTH,
                   ON_FATAL, onFatalLock, dispatch, latch, clock, sinks, pc, arg, res,
                   hist, pure>>

(***************************************************************************)
(* lib.rs: the fern::Dispatch built by init_logger.  The top dispatch       *)
(* passes every record to its chains in order; a chain formats and writes  *)
(* the record when the record's level passes the chain's own level.        *)
(***************************************************************************)
console_level(d) == d.log_level          \* .level(log_level)
file_level(d) == Info                    \* .level(log::LevelFilter::Info)

\* macros.rs: info!, warn!, error!, trace!, debug!
FernLogCall(t) ==
    /\ Running /\ build = "fern"
    /\ pc[t] = "idle"
    /\ RecordBudget
    /\ \E lv \in RecordLevels, tg \in Targets, m \in LogMsgs :
          LET rec == [level |-> lv, target |-> tg, msg |-> m]
          IN  /\ hist' = [hist EXCEPT !.records = Handed(t, rec, 0, latch, m)]
              /\ arg' = [arg EXCEPT ![t] =
                           IF FacadePasses(lv)
                           THEN [NoArg EXCEPT !.rec = rec,
                                              !.call = Len(hist.records) + 1]
                           ELSE NoArg]
              /\ pc' = [pc EXCEPT ![t] =
                          IF FacadePasses(lv) THEN "log_console" ELSE "idle"]
    /\ UNCHANGED <<build, facade, maxLevel, LOGGER, SETTING_LOGGER, TARGET_LENGTH,
                   ON_FATAL, onFatalLock, dispatch, latch, clock, sinks, exited, res,
                   pure>>

\* the console chain: format with generate_log!, write to stdout
FernLogConsole(t) ==
    /\ Running
    /\ pc[t] = "log_console"
    /\ IF arg[t].rec.level <= console_level(dispatch)
       THEN sinks' = [sinks EXCEPT !["stdout"] =
                        Append(@, Entry(arg[t].call,
                                        generate_log(dispatch.max_name_length,
                                                     arg[t].rec, clock)))]
       ELSE UNCHANGED sinks
    /\ pc' = [pc EXCEPT ![t] = "log_file"]
    /\ UNCHANGED <<build, facade, maxLevel, LOGGER, SETTING_LOGGER, TARGET_LENGTH,
                   ON_FATAL, onFatalLock, dispatch, latch, clock, exited, arg, res,
                   hist, pure>>

\* the file chain, when a log file was given: format with generate_log!, write
FernLogFile(t) ==
    /\ Running
    /\ pc[t] = "log_file"
    /\ IF dispatch.log_file /\ arg[t].rec.level <= file_level(dispatch)
       THEN sinks' = [sinks EXCEPT !["file"] =
                        Append(@, Entry(arg[t].call,
                                        generate_log(dispatch.max_name_length,
                                                     arg[t].rec, clock)))]
       ELSE UNCHANGED sinks
    /\ pc' = [pc EXCEPT ![t] = IF arg[t].fid # 0 THEN "fatal_exit" ELSE "idle"]
    /\ arg' = [arg EXCEPT ![t] = IF arg[t].fid # 0 THEN arg[t] ELSE NoArg]
    /\ UNCHANGED <<build, facade, maxLevel, LOGGER, SETTING_LOGGER, TARGET_LENGTH,
                   ON_FATAL, onFatalLock, dispatch, latch, clock, exited, res, hist,
                   pure>>

(***************************************************************************)
(* lib.rs: init_logger.                                                    *)
(***************************************************************************)
\* create_dir_all and fern::log_file, each fatal on failure
FernInitCall(t) ==
    /\ Running /\ build = "fern"
    /\ pc[t] = "idle"
    /\ hist.calls < MaxCalls
    /\ RecordBudget
    /\ \E lv \in FilterArgs, w \in WidthArgs, lf \in BOOLEAN, io \in IoOutcomes :
          LET a == [NoArg EXCEPT !.log_level = lv, !.width = w, !.log_file = lf]
          IN  /\ lf \/ io = "ok"
              /\ IF io # "ok"
                 THEN /\ FernFatalStart(t, GOOLOG_CALLER,
                                        IF io = "mkdir" THEN MsgMkdir ELSE MsgOpen)
                      /\ res' = [res EXCEPT ![t] = [r |-> "IoError",
                                                    late |-> hist.ok >= 1,
                                                    overlap |-> FALSE]]
                 ELSE /\ arg' = [arg EXCEPT ![t] = a]
                      /\ pc' = [pc EXCEPT ![t] = "fern_apply"]
                      /\ res' = [res EXCEPT ![t] = [r |-> "running",
                                                    late |-> hist.ok >= 1,
                                                    overlap |-> FALSE]]
                      /\ hist' = [hist EXCEPT !.calls = hist.calls + 1]
    /\ UNCHANGED <<build, facade, maxLevel, LOGGER, SETTING_LOGGER, TARGET_LENGTH,
                   ON_FATAL, onFatalLock, dispatch, latch, clock, sinks, exited, pure>>

MaxOf(a, b) == IF a >= b THEN a ELSE b

\* FernApply with the error of apply() dropped: the call goes on to the latch
FernApply_error_ignored(t) ==
    /\ Running
    /\ pc[t] = "fern_apply"
    /\ IF facade = "none"
       THEN /\ facade' = "goolog"
            /\ dispatch' = [log_level |-> IF arg[t].log_level = NoneOpt
                                          THEN DefaultLevel ELSE arg[t].log_level,
                            max_name_length |-> IF arg[t].width = NoneOpt
                                                THEN DefaultWidth ELSE arg[t].width,
                            log_file |-> arg[t].log_file]
            /\ maxLevel' = Trace
            /\ hist' = [hist EXCEPT !.registrations = Cap(hist.registrations),
                                    !.first = "stdout"]
       ELSE UNCHANGED <<facade, dispatch, maxLevel, hist>>
    /\ pc' = [pc EXCEPT ![t] = "fern_latch"]
    /\ UNCHANGED <<build, LOGGER, SETTING_LOGGER, TARGET_LENGTH, ON_FATAL, onFatalLock,
                   latch, clock, sinks, exited, arg, res, pure>>

\* logger.apply().unwrap_or_else(|error| fatal!(..))
FernApply(t) ==
    /\ Running
    /\ pc[t] = "fern_apply"
    /\ IF facade = "none"
       THEN LET d == [log_level |-> IF arg[t].log_level = NoneOpt THEN DefaultLevel
                                    ELSE arg[t].log_level,
                      max_name_length |-> IF arg[t].width = NoneOpt THEN DefaultWidth
                                          ELSE arg[t].width,
                      log_file |-> arg[t].log_file]
            IN  /\ facade' = "goolog"
                /\ dispatch' = d
                /\ maxLevel' = (IF d.log_file
                                THEN MaxOf(console_level(d), file_level(d))
                                ELSE console_level(d))
                /\ hist' = [hist EXCEPT !.registrations = Cap(hist.registrations),
                                        !.first = "stdout"]
                /\ pc' = [pc EXCEPT ![t] = "fern_latch"]
                /\ arg' = [arg EXCEPT ![t] = NoArg]    \* the dispatch was moved
                /\ UNCHANGED res
       ELSE /\ FernFatalStart(t, GOOLOG_CALLER, MsgApply)
            /\ res' = [res EXCEPT ![t].r = "AlreadySet"]
            /\ UNCHANGED <<facade, dispatch, maxLevel>>
    /\ UNCHANGED <<build, LOGGER, SETTING_LOGGER, TARGET_LENGTH, ON_FATAL, onFatalLock,
                   latch, clock, sinks, exited, pure>>

\* FernLatch with the latch left alone: the call returns without setting it
FernLatch_never_set(t) ==
    /\ Running
    /\ pc[t] = "fern_latch"
    /\ pc' = [pc EXCEPT ![t] = "idle"]
    /\ res' = [res EXCEPT ![t].r = "Ok"]
    /\ hist' = [hist EXCEPT !.ok = Cap(hist.ok)]
    /\ arg' = [arg EXCEPT ![t] = NoArg]
    /\ UNCHANGED <<build, facade, maxLevel, LOGGER, SETTING_LOGGER, TARGET_LENGTH,
                   ON_FATAL, onFatalLock, dispatch, latch, clock, sinks, exited, pure>>

\* if INTERNAL__LOGGER_ACTIVE.set(()).is_err() { fatal!(..) }
FernLatch(t) ==
    /\ Running
    /\ pc[t] = "fern_latch"
    /\ IF latch
       THEN /\ FernFatalStart(t, GOOLOG_CALLER, MsgLatch)
            /\ res' = [res EXCEPT ![t].r = "LatchError"]
            /\ UNCHANGED latch
       ELSE /\ latch' = TRUE
            /\ pc' = [pc EXCEPT ![t] = "idle"]
            /\ res' = [res EXCEPT ![t].r = "Ok"]
            /\ hist' = [hist EXCEPT !.ok = Cap(hist.ok)]
            /\ arg' = [arg EXCEPT ![t] = NoArg]
    /\ UNCHANGED <<build, facade, maxLevel, LOGGER, SETTING_LOGGER, TARGET_LENGTH,
                   ON_FATAL, onFatalLock, dispatch, clock, sinks, exited, pure>>

(***************************************************************************)
(* The program.                                                            *)
(***************************************************************************)
Next ==
    \/ Tick
    \/ ForeignSetLogger
    \/ \E t \in Threads :
          \/ InitCall(t) \/ InitLock(t) \/ InitCheck(t) \/ InitStore(t)
          \/ InitRegister(t) \/ InitLevel(t) \/ InitFinish(t)
          \/ SetTargetLength(t)
          \/ LogCall(t)
          \/ FatalCall(t) \/ FatalLock(t) \/ FatalRun(t) \/ FatalReenter(t)
          \/ SetOnFatal(t)
          \/ FernInitCall(t) \/ FernApply(t) \/ FernLatch(t)
          \/ FernLogCall(t) \/ FernLogConsole(t) \/ FernLogFile(t)
          \/ FernFatalCall(t) \/ FernFatalExit(t)

Spec == Init /\ [][Next]_vars

(***************************************************************************)
(* The pure functions on their own: Init draws the inputs, an action        *)
(* applies the function.                                                    *)
(***************************************************************************)
Alphabet == {"a", " ", EAcute}

RECURSIVE StringsUpTo(_)
StringsUpTo(n) ==
    IF n = 0 THEN {<<>>}
    ELSE LET shorter == StringsUpTo(n - 1)
         IN  shorter \cup {Append(x, c) : x \in shorter, c \in Alphabet}

FmtWidths == (0..MaxWidth) \cup {DefaultWidth}
FmtMsgs == {<<>>, <<"x">>, Sentinel, Sentinel \o <<"x">>, Sentinel \o Sentinel \o <<"x">>,
            SubSeq(Sentinel, 1, Len(Sentinel) - 1) \o <<"x">>,
            <<"x">> \o Sentinel, LevelName(Error)}

InitFmt ==
    /\ build = "fern"
    /\ facade = "none"
    /\ maxLevel = Off
    /\ LOGGER = LoggerNone
    /\ SETTING_LOGGER = 0
    /\ TARGET_LENGTH = DefaultWidth
    /\ ON_FATAL = "None"
    /\ onFatalLock = 0
    /\ dispatch = [log_level |-> Off, max_name_length |-> 0, log_file |-> FALSE]
    /\ latch = FALSE
    /\ clock = 0
    /\ sinks = [s \in SinkNames |-> <<>>]
    /\ exited = FALSE
    /\ pc = [t \in Threads |-> "idle"]
    /\ arg = [t \in Threads |-> NoArg]
    /\ res = [t \in Threads |-> [r |-> "none", late |-> FALSE, overlap |-> FALSE]]
    /\ hist = [records |-> <<>>, calls |-> 0, ok |-> 0, err |-> 0,
               slotWrites |-> 0, registrations |-> 0, first |-> "none",
               fatals |-> 0, failed |-> {}]
    /\ \/ \E w \in FmtWidths, t \in StringsUpTo(MaxLen) :
             pure = [op |-> "to_fixed_size", done |-> FALSE, w |-> w, t |-> t,
                     rec |-> NoRecord, now |-> 0, out |-> <<>>, line |-> NoLine]
       \/ \E w \in FmtWidths, t \in StringsUpTo(MaxLen) :
             pure = [op |-> "render_target", done |-> FALSE, w |-> w, t |-> t,
                     rec |-> NoRecord, now |-> 0, out |-> <<>>, line |-> NoLine]
       \/ \E lv \in Levels, m \in FmtMsgs, w \in {0, DefaultWidth}, now \in 0..MaxClock :
             pure = [op |-> "generate_log", done |-> FALSE, w |-> w, t |-> <<>>,
                     rec |-> [level |-> lv, target |-> Main, msg |-> m],
                     now |-> now, out |-> <<>>, line |-> NoLine]

ApplyToFixedSize ==
    /\ pure.op = "to_fixed_size" /\ ~pure.done
    /\ pure' = [pure EXCEPT !.done = TRUE, !.out = to_fixed_size(pure.w, pure.t)]
    /\ UNCHANGED <<build, facade, maxLevel, LOGGER, SETTING_LOGGER, TARGET_LENGTH,
                   ON_FATAL, onFatalLock, dispatch, latch, clock, sinks, exited, pc,
                   arg, res, hist>>

ApplyGenerateLog ==
    /\ pure.op = "generate_log" /\ ~pure.done
    /\ pure' = [pure EXCEPT !.done = TRUE,
                            !.line = generate_log(pure.w, pure.rec, pure.now)]
    /\ UNCHANGED <<build, facade, maxLevel, LOGGER, SETTING_LOGGER, TARGET_LENGTH,
                   ON_FATAL, onFatalLock, dispatch, latch, clock, sinks, exited, pc,
                   arg, res, hist>>

\* Logger::log of logger/mod.rs, its target under TARGET_LENGTH = pure.w
ApplyRenderTarget ==
    /\ pure.op = "render_target" /\ ~pure.done
    /\ pure' = [pure EXCEPT !.done = TRUE, !.out = render_target(pure.w, pure.t)]
    /\ UNCHANGED <<build, facade, maxLevel, LOGGER, SETTING_LOGGER, TARGET_LENGTH,
                   ON_FATAL, onFatalLock, dispatch, latch, clock, sinks, exited, pc,
                   arg, res, hist>>

NextFmt == ApplyToFixedSize \/ ApplyGenerateLog \/ ApplyRenderTarget

SpecFmt == InitFmt /\ [][NextFmt]_vars

(***************************************************************************)
(* Reading the state.                                                      *)
(***************************************************************************)
LoggerBuild == build \in {"std", "nostd"}

\* the lines sink s has received for the record handed over as number `call`
LinesOf(call, s) == {i \in 1..Len(sinks[s]) : sinks[s][i].call = call}

\* the threshold of the installed logger
Threshold == IF build = "fern" THEN dispatch.log_level ELSE LOGGER.log_level

\* the sinks of the installed logger
InstalledSinks ==
    IF build = "fern" THEN {"stdout"} \cup (IF dispatch.log_file THEN {"file"} ELSE {})
    ELSE {LOGGER.println}

\* the log call that handed over record number `call` has returned
CallDone(call) ==
    \A t \in Threads :
        ~(arg[t].call = call /\ pc[t] \in {"log_console", "log_file"})

InitPcs == {"init_lock", "init_check", "init_store", "init_register", "init_level",
            "init_width"}
PastLock == {t \in Threads : pc[t] \in InitPcs \ {"init_lock"}}

C2_Serialized ==
    (LoggerBuild /\ facade # "foreign") =>
        /\ Cardinality(PastLock) <= 1
        /\ \A t \in PastLock : SETTING_LOGGER = t
        /\ hist.slotWrites <= 1
        /\ hist.registrations <= 1
        /\ hist.ok <= 1
        /\ hist.err >= 1 => hist.ok = 1
        /\ \A t \in Threads : res[t].r \in {"none", "running", "Ok", "AlreadySet"}
        /\ Cardinality({t \in Threads : res[t].r = "Ok"}) <= 1

\* two calls overlapped: one returned Ok, the other waited for the mutex and
\* returned LoggerAlreadySet
C2_Witness ==
    /\ LoggerBuild /\ facade = "goolog"
    /\ \E t, u \in Threads :
          /\ res[t].r = "Ok"
          /\ res[u].r = "AlreadySet" /\ res[u].overlap /\ ~res[u].late

(***************************************************************************)
(* C3.  An init_logger call that fails because a logger is installed       *)
(* changes nothing: no step of an init_logger call taken after a call has  *)
(* succeeded changes the installed logger, its threshold, its sink, the    *)
(* facade's registration and level, the target width or the sinks'         *)
(* contents; and every line ever written went to the sink of the first     *)
(* registered logger.                                                      *)
(***************************************************************************)
InitStepOf(t) == pc[t] # pc'[t] /\ (pc[t] \in InitPcs \/ pc'[t] \in InitPcs)

C3_FailedInitFrame ==
    /\ [](LoggerBuild => \A s \in SinkNames : sinks[s] # <<>> => s = hist.first)
    /\ [][\A t \in Threads :
            (LoggerBuild /\ hist.ok >= 1 /\ InitStepOf(t)) =>
                UNCHANGED <<LOGGER, facade, maxLevel, TARGET_LENGTH, sinks>>]_vars

\* a record logged after a failed second call was written by the first logger
C3_Witness ==
    /\ LoggerBuild /\ build = "nostd"
    /\ \E i \in 1..Len(hist.records) :
          /\ hist.records[i].installed /\ hist.records[i].errs >= 1
          /\ LinesOf(i, hist.first) # {}
          /\ LOGGER.println = hist.first

(***************************************************************************)
(* C4.  No sink receives a line for a record whose level is less severe    *)
(* than the configured threshold.                                          *)
(***************************************************************************)
C4_BelowThresholdDropped ==
    \A s \in SinkNames : \A i \in 1..Len(sinks[s]) :
        hist.records[sinks[s][i].call].level <= Threshold

(***************************************************************************)
(* C5.  For a record that passes the configured threshold, handed to an    *)
(* installed logger, each installed sink receives exactly one line per     *)
(* log call.                                                               *)
(***************************************************************************)
C5_OneLinePerSink ==
    \A i \in 1..Len(hist.records) :
        (/\ hist.records[i].installed
         /\ hist.records[i].level <= Threshold
         /\ i \notin hist.failed
         /\ CallDone(i)
         /\ ~exited)
        => \A s \in InstalledSinks : Cardinality(LinesOf(i, s)) = 1

(***************************************************************************)
(* C6.  to_fixed_size(w, t): for w > 0 exactly w characters, the first w   *)
(* of t or t followed by spaces; for w = 0, t unchanged.                   *)
(***************************************************************************)
C6_FixedSize ==
    (pure.op = "to_fixed_size" /\ pure.done) =>
        IF pure.w = 0 THEN pure.out = pure.t
        ELSE /\ Len(pure.out) = pure.w
             /\ Len(pure.t) >= pure.w => pure.out = SubSeq(pure.t, 1, pure.w)
             /\ Len(pure.t) < pure.w =>
                   /\ SubSeq(pure.out, 1, Len(pure.t)) = pure.t
                   /\ \A k \in (Len(pure.t) + 1)..pure.w : pure.out[k] = " "

\* a target holding a multi-byte character, shorter than the width, padded
C6_Witness ==
    /\ pure.op = "to_fixed_size" /\ pure.done
    /\ pure.w > 0 /\ Len(pure.t) < pure.w
    /\ \E k \in 1..Len(pure.t) : pure.t[k] = EAcute
    /\ Len(pure.out) = pure.w

C8_FatalRewrite ==
    (pure.op = "generate_log" /\ pure.done) =>
        LET r == pure.rec
            marked == r.level = Error /\ StartsWith(r.msg, Sentinel)
        IN  /\ marked => /\ LevelWord(pure.line.level) = FatalName
                         /\ pure.line.msg = SubSeq(r.msg, Len(Sentinel) + 1, Len(r.msg))
            /\ ~marked => /\ LevelWord(pure.line.level) = LevelName(r.level)
                          /\ pure.line.msg = r.msg
            /\ LevelWord(pure.line.level) = FatalName => marked
            /\ Len(pure.line.level) = 14

C8_Witness ==
    /\ pure.op = "generate_log" /\ pure.done
    /\ pure.rec.level = Error /\ pure.rec.msg = Sentinel \o <<"x">>
    /\ LevelWord(pure.line.level) = FatalName /\ pure.line.msg = <<"x">>

(***************************************************************************)
(* C9.  A fatal call hands exactly one ERROR record to the facade before   *)
(* it triggers termination; the record's message is the sentinel followed  *)
(* by the formatted message when the latch was set at the call, and the    *)
(* formatted message otherwise.                                            *)
(***************************************************************************)
FatalRecords(fid) == {i \in 1..Len(hist.records) : hist.records[i].fid = fid}
AboutToTerminate(t) == pc[t] \in {"fatal_exit", "fatal_lock", "fatal_run"}

C9_FatalRecord ==
    /\ \A t \in Threads :
          AboutToTerminate(t) =>
              /\ Cardinality(FatalRecords(arg[t].fid)) = 1
              /\ \A i \in FatalRecords(arg[t].fid) :
                    LET r == hist.records[i]
                    IN  /\ r.level = Error
                        /\ r.msg = IF r.latched THEN Sentinel \o r.fmt ELSE r.fmt
    /\ \A i \in 1..Len(hist.records) :
          hist.records[i].fid # 0 =>
              /\ Cardinality(FatalRecords(hist.records[i].fid)) = 1
              /\ hist.records[i].level = Error

\* both cases: a fatal about to exit whose record carries the sentinel (latch
\* set), reached in the fern revision after a successful init_logger
C9_Witness ==
    \E t \in Threads :
        /\ pc[t] = "fatal_exit"
        /\ \E i \in FatalRecords(arg[t].fid) :
              /\ hist.records[i].latched
              /\ hist.records[i].msg = Sentinel \o hist.records[i].fmt

(***************************************************************************)
(* C10.  Every line written to the file sink is plain: it holds no ANSI    *)
(* escape sequence.                                                        *)
(***************************************************************************)
C10_FilePlain ==
    \A i \in 1..Len(sinks["file"]) : ~HasAnsi(FormatLine(sinks["file"][i]))

(***************************************************************************)
(* C11.  The latch INTERNAL__LOGGER_ACTIVE is set if and only if a goolog  *)
(* logger is installed as the global logger.                               *)
(***************************************************************************)
\* the dispatch of lib.rs is registered with the facade
FernInstalled == build = "fern" /\ facade = "goolog"

\* the claim as stated: in every state, set exactly when installed
C11_Original == latch <=> FernInstalled

\* as amended: the latch is set only while a goolog logger is installed, and is
\* set from the return of the successful init_logger call on; the logger is
\* installed with the latch still unset only while that call is between
\* apply() and INTERNAL__LOGGER_ACTIVE.set(())
C11_LatchFollowsInstall ==
    /\ latch => (FernInstalled /\ hist.ok >= 1)
    /\ (build = "fern" /\ hist.ok >= 1) => latch
    /\ (FernInstalled /\ ~latch) => \E t \in Threads : pc[t] = "fern_latch"

\* a record handed over by a log call made once the latch was set, and written
C11_Witness ==
    /\ latch /\ FernInstalled
    /\ \E i \in 1..Len(hist.records) :
          /\ hist.records[i].latched /\ hist.records[i].fid = 0
          /\ LinesOf(i, "stdout") # {}

(***************************************************************************)
(* C12.  The target width is fixed at installation: once init_logger has   *)
(* succeeded, no call of the public interface changes the width with which *)
(* later records are rendered.                                             *)
(***************************************************************************)
\* the width with which the installed logger renders a target
WidthInEffect == IF build = "fern" THEN dispatch.max_name_length ELSE TARGET_LENGTH

StillInstalled ==
    (LoggerBuild /\ hist.failed # {}) => (LOGGER.set /\ facade = "goolog")

C13_WriteFailureSwallowed ==
    /\ \A t \in Threads : pc[t] # "panicked"
    /\ StillInstalled

(***************************************************************************)
(* C14.  fatal! holds the ON_FATAL mutex only to read the callback: the    *)
(* mutex is not held while the callback runs, so a set_on_fatal made from  *)
(* inside the callback or by another thread meanwhile finds it free.       *)
(***************************************************************************)
InCallback(t) == pc[t] \in {"fatal_run", "cb_set_on_fatal"}

C14_CallbackRunsUnlocked ==
    \A t \in Threads : InCallback(t) => onFatalLock = 0

\* the callback called set_on_fatal: the thread spins on the mutex it holds
C14_SelfDeadlock ==
    \E t \in Threads : pc[t] = "cb_set_on_fatal" /\ onFatalLock = t

(***************************************************************************)
(* C15.  The timestamp is captured once per log call: the lines the        *)
(* console and the file receive for the same record carry the same         *)
(* timestamp.                                                              *)
(***************************************************************************)
C15_SameTimestamp ==
    \A i \in 1..Len(sinks["stdout"]) : \A j \in 1..Len(sinks["file"]) :
        sinks["stdout"][i].call = sinks["file"][j].call
            => sinks["stdout"][i].ts = sinks["file"][j].ts

(***************************************************************************)
(* C16.  Logger::log renders the target to exactly TARGET_LENGTH           *)
(* characters when TARGET_LENGTH > 0 (the first TARGET_LENGTH characters   *)
(* of the target, or the target followed by spaces), multi-byte characters *)
(* counting as one; with TARGET_LENGTH = 0 the target is written verbatim. *)
(***************************************************************************)
C16_LoggerTargetWidth ==
    (pure.op = "render_target" /\ pure.done) =>
        IF pure.w = 0 THEN pure.out = pure.t
        ELSE pure.out = PadTrunc(pure.t, pure.w)

\* the same for targets of one-byte characters only, where it holds
C16_AsciiTargetWidth ==
    (pure.op = "render_target" /\ pure.done /\ ByteLen(pure.t) = Len(pure.t)) =>
        IF pure.w = 0 THEN pure.out = pure.t
        ELSE pure.out = PadTrunc(pure.t, pure.w)

(***************************************************************************)
(* C17.  Every line emitted by a logger installed with                     *)
(* init_logger(_, Some(w)) is rendered with target width w: no record      *)
(* logged by another thread during the installation is accepted by the     *)
(* new logger and rendered with the previous or default width.             *)
(***************************************************************************)
\* thread t is inside init_logger(_, Some(w)), past set_max_level_racy and
\* before set_target_length(w)
StoringWidth(t) == pc[t] = "init_width" /\ arg[t].width # NoneOpt

C17_WidthBeforeReachable ==
    \A t \in Threads :
        StoringWidth(t) =>
            \A i \in 1..Len(sinks[LOGGER.println]) :
                LET e == sinks[LOGGER.println][i]
                IN  e.target = render_target(arg[t].width, hist.records[e.call].target)

====
